---- MODULE Spec2Model ----
(***************************************************************************)
(* A model of embed-image: src/src/main.rs (main and visit_dirs_or_file).  *)
(* One run of main is a sequence of steps; every fallible call (`?`) ends  *)
(* the run in pc = "failed", every panic (unwrap on None, checked integer  *)
(* overflow) in pc = "panicked".                                           *)
(*                                                                         *)
(* Strings that the program takes apart (the image path) are sequences of  *)
(* one-character strings.  Option<T> is a sequence of length 0 (None) or 1 *)
(* (Some).  The output file is a sequence of tagged bytes <<tag, k>>.      *)
(***************************************************************************)
EXTENDS Integers, Sequences, FiniteSets, TLC

VARIABLES
    args,          \* the parsed command line (Args), immutable
    fs,            \* the filesystem the run sees, immutable but for the output file
    pc,            \* position of main
    output_fn,     \* Option: the computed output file name
    opened,        \* TRUE once the output file has been created/opened
    out,           \* content of the output file
    pos,           \* write cursor of the output handle
    log,           \* warnings, errors and the closing info line, in order
    orig_image,    \* Option: [w, h, rect] the decoded image and the region overlaid
    qrcode_img,    \* Option: side length of the rendered QR bitmap
    xy,            \* Option: the placement offset <<x, y>>
    options,       \* Option: the FileOptions of every entry
    path_to_pack,  \* the file list
    widx,          \* index of the next input path to walk
    entries,       \* archive entries started so far
    entryFailedAt, \* history: index of the entry whose write failed, 0 if none
    held           \* data of the current entry the archive writer has not written yet

vars == <<args, fs, pc, output_fn, opened, out, pos, log, orig_image, qrcode_img,
          xy, options, path_to_pack, widx, entries, entryFailedAt, held>>

----------------------------------------------------------------------------
(* Bounds of the model *)

MaxNodes == 4       \* filesystem nodes 1..MaxNodes, children of n are 2n, 2n+1
MaxPaths == 2       \* input paths on the command line
MaxOldLen == 3      \* length of a file already present at the output path
MaxImgLen == 2      \* length in bytes of the source image file
MaxVersion == 2     \* QR versions the password may need
DimBase == 100      \* image sides are DimBase * 3^k
MaxDimExp == 2

(* Program constants *)

MinQrLen == 200     \* .max(200)
QrDivisor == 3      \* .div(3)
Limb == 2^16

Min(a, b) == IF a < b THEN a ELSE b
Max(a, b) == IF a > b THEN a ELSE b

None == <<>>
Some(v) == <<v>>

----------------------------------------------------------------------------
(* Path and string helpers (std::path::Path, str::split) *)

Png == <<"p", "n", "g">>
MergedSuffix == <<"_", "m", "e", "r", "g", "e", "d", ".">>

\* index of the last / first occurrence of character c in s, 0 if none
LastIndexOf(s, c) ==
    LET I == {i \in 1..Len(s) : s[i] = c}
    IN  IF I = {} THEN 0 ELSE CHOOSE i \in I : \A j \in I : j <= i

FirstIndexOf(s, c) ==
    LET I == {i \in 1..Len(s) : s[i] = c}
    IN  IF I = {} THEN 0 ELSE CHOOSE i \in I : \A j \in I : i <= j

\* Path::file_name: the last component of the path
FileName(p) == SubSeq(p, LastIndexOf(p, "/") + 1, Len(p))

\* Path::extension: what follows the last dot of the file name; None when there
\* is no dot or when the only dot starts the name
Extension(p) ==
    LET f == FileName(p)
        i == LastIndexOf(f, ".")
    IN  IF i <= 1 THEN None ELSE Some(SubSeq(f, i + 1, Len(f)))

\* Path::file_stem: the file name without its extension
FileStem(p) ==
    LET f == FileName(p)
        i == LastIndexOf(f, ".")
    IN  IF i <= 1 THEN f ELSE SubSeq(f, 1, i - 1)

\* s.split(".").nth(0): what precedes the first dot
SplitFirst(s) ==
    LET i == FirstIndexOf(s, ".")
    IN  IF i = 0 THEN s ELSE SubSeq(s, 1, i - 1)

\* the `if qrcode_overlap { "png" } else { img.extension().unwrap() }` operand;
\* None stands for the panic of unwrap
OutputExt(img, qrcode_overlap) ==
    IF qrcode_overlap THEN Some(Png) ELSE Extension(img)

\* output_fn, given that the extension operand did not panic
OutputFn(img, qrcode_overlap) ==
    SplitFirst(FileName(img)) \o MergedSuffix \o OutputExt(img, qrcode_overlap)[1]

----------------------------------------------------------------------------
(* QR rendering and placement *)

\* orig_width.min(orig_height).div(3).max(200)
PixelLen(w, h) == Max(Min(w, h) \div QrDivisor, MinQrLen)

\* modules per side of a QR symbol of version v
ModulesCount(v) == 17 + 4 * v

\* Renderer: max_dimensions is called while has_quiet_zone still has its default
\* (true), so the module size is computed with the quiet zone counted; build
\* then counts the quiet zone only when it is on.  The module size is >= 1.
RenderedLen(v, pixel_len, has_quiet_zone) ==
    LET unit == Max(pixel_len \div (ModulesCount(v) + 8), 1)
    IN  (ModulesCount(v) + (IF has_quiet_zone THEN 8 ELSE 0)) * unit

\* A u32 is a pair <<hi, lo>> of 16-bit limbs, value hi * 2^16 + lo.
U32Of(n) == <<n \div Limb, n % Limb>>

\* wrapping u32 subtraction a - b (mod 2^32) of image-sized operands
Sub32(a, b) ==
    IF a >= b THEN U32Of(a - b)
    ELSE <<(Limb - 1) - ((b - a - 1) \div Limb), (Limb - 1) - ((b - a - 1) % Limb)>>

\* u32 division by 2
Half32(u) == <<u[1] \div 2, (u[1] % 2) * (Limb \div 2) + u[2] \div 2>>

\* u32 comparison with an image-sized natural
Geq32(u, n) == u[1] > 0 \/ u[2] >= n

\* TRUE iff the match arm taken subtracts with overflow
PlaceOverflows(qr_position, w, h, q) ==
    IF qr_position = None THEN FALSE
    ELSE CASE qr_position[1] = "top-right"    -> q > w
           [] qr_position[1] = "bottom-left"  -> q > h
           [] qr_position[1] = "bottom-right" -> q > w \/ q > h
           [] qr_position[1] = "center"       -> q > w \/ q > h
           [] OTHER -> FALSE

\* the fallback arm warning whatever the keyword
PlaceWarnsAlways(qr_position) ==
    /\ qr_position # None
    /\ qr_position[1] \notin {"top-right", "bottom-left", "bottom-right", "center"}

\* TRUE iff the warn! of the fallback arm runs
PlaceWarns(qr_position) ==
    /\ qr_position # None
    /\ qr_position[1] \notin {"top-right", "bottom-left", "bottom-right", "center"}
    /\ qr_position[1] # "top-left"

\* the match on qr_position with the center arm not halved
PlaceOffsetNoHalving(qr_position, w, h, q) ==
    IF qr_position = None THEN <<U32Of(0), U32Of(0)>>
    ELSE CASE qr_position[1] = "top-right"    -> <<Sub32(w, q), U32Of(0)>>
           [] qr_position[1] = "bottom-left"  -> <<U32Of(0), Sub32(h, q)>>
           [] qr_position[1] = "bottom-right" -> <<Sub32(w, q), Sub32(h, q)>>
           [] qr_position[1] = "center"       -> <<Sub32(w, q), Sub32(h, q)>>
           [] OTHER -> <<U32Of(0), U32Of(0)>>

\* the (x, y) of the match on qr_position
PlaceOffset(qr_position, w, h, q) ==
    IF qr_position = None THEN <<U32Of(0), U32Of(0)>>
    ELSE CASE qr_position[1] = "top-right"    -> <<Sub32(w, q), U32Of(0)>>
           [] qr_position[1] = "bottom-left"  -> <<U32Of(0), Sub32(h, q)>>
           [] qr_position[1] = "bottom-right" -> <<Sub32(w, q), Sub32(h, q)>>
           [] qr_position[1] = "center"       -> <<Half32(Sub32(w, q)), Half32(Sub32(h, q))>>
           [] OTHER -> <<U32Of(0), U32Of(0)>>

\* imageops::overlay: the region of the w x h image that the q x q bitmap
\* placed at (x, y) replaces, clipped to the image; None when they do not meet
OverlayRect(w, h, q, x, y) ==
    IF Geq32(x, w) \/ Geq32(y, h) \/ q = 0 THEN None
    ELSE Some([x0 |-> x[2], y0 |-> y[2],
               x1 |-> Min(x[2] + q, w), y1 |-> Min(y[2] + q, h)])

\* csscolorparser::parse succeeds
ColorParses(c) == c \in {"#000000ff", "ffffffff"}

----------------------------------------------------------------------------
(* The filesystem below the input paths, and visit_dirs_or_file *)

Nodes == 1..MaxNodes

\* "file": a regular file; "dir": a directory that can be listed; "noread": a
\* directory whose read_dir fails; "other": neither file nor directory (a
\* broken symlink, a FIFO, a missing path); "enterr": an entry at which the
\* read of the directory stream fails
Kinds == {"file", "dir", "noread", "other", "enterr"}

\* the listing of directory n, in the order read_dir returns it
Children(n) == SelectSeq(<<2 * n, 2 * n + 1>>, LAMBDA c : c \in Nodes)

IsFile(n) == fs.kind[n] = "file"
IsDir(n) == fs.kind[n] \in {"dir", "noread"}

\* Vec::push
Push(list, p) == Append(list, p)

\* dir.flatten(): ReadDir yields Err at the entry whose read fails and then
\* ends, and flatten drops the Err: what is left is the entries before it
Flatten(cs) ==
    LET E == {i \in 1..Len(cs) : fs.kind[cs[i]] = "enterr"}
    IN  IF E = {} THEN cs
        ELSE SubSeq(cs, 1, (CHOOSE i \in E : \A j \in E : i <= j) - 1)

RECURSIVE visit_dirs_or_file(_, _)
RECURSIVE VisitEntries(_, _, _)

\* the `for entry in dir.flatten()` loop from entry i on; [ok, list]
VisitEntries(cs, i, append_to) ==
    IF i > Len(cs) THEN [ok |-> TRUE, list |-> append_to]
    ELSE IF IsDir(cs[i])
         THEN LET r == visit_dirs_or_file(cs[i], append_to)
              IN  IF r.ok THEN VisitEntries(cs, i + 1, r.list) ELSE r
         ELSE IF IsFile(cs[i])
              THEN VisitEntries(cs, i + 1, Push(append_to, cs[i]))
              ELSE VisitEntries(cs, i + 1, append_to)

\* [ok |-> the call returned Ok, list |-> append_to afterwards]
visit_dirs_or_file(path, append_to) ==
    IF IsFile(path) THEN [ok |-> TRUE, list |-> Push(append_to, path)]
    ELSE IF fs.kind[path] = "dir"
         THEN VisitEntries(Flatten(Children(path)), 1, append_to)
         ELSE [ok |-> FALSE, list |-> append_to]

----------------------------------------------------------------------------
(* The output file *)

Repeat(b, n) == [i \in 1..n |-> b]

\* the first n bytes: what a write_all that fails after n bytes leaves written
\* (write_all loops over write on the unbuffered File)
Prefix(bytes, n) == SubSeq(bytes, 1, n)

\* the encoded raster the PNG encoder writes: its header, then its image data
PngBytes == <<<<"png", 1>>, <<"png", 2>>>>

\* write_all(bytes) on a handle at cursor p over content f (no O_APPEND, no
\* truncation: bytes beyond the written range stay)
WriteAt(f, p, bytes) ==
    [i \in 1..Max(Len(f), p + Len(bytes)) |->
        IF i > p /\ i <= p + Len(bytes) THEN bytes[i - p] ELSE f[i]]

\* OpenOptions::new().append(false).create(true).write(true).read(false).open:
\* the content of the file just opened, given what was at the path (created
\* empty when absent, left as it is when present: truncate is not set)
Opened(old) == old

----------------------------------------------------------------------------
(* Inputs *)

ImgNames ==
    { <<"a", ".", "j", "p", "g">>,
      <<"a", ".", "b", ".", "j", "p", "g">>,
      <<"d", "/", "c", ".", "p", "n", "g">>,
      <<"r", "a", "w">> }

Positions ==
    { None, Some("top-left"), Some("top-right"), Some("bottom-left"),
      Some("bottom-right"), Some("center"), Some("middle"), Some("") }

Colors == {"#000000ff", "ffffffff", "notacolor"}

Dims == {DimBase * 3^k : k \in 0..MaxDimExp}

\* a password is modelled by the QR version its text needs at level H;
\* 0: the text exceeds the capacity of every version
Passwords == {Some(v) : v \in 0..MaxVersion}

PathSeqs == UNION {[1..n -> Nodes] : n \in 0..MaxPaths}

DefaultArgs ==
    [ img |-> <<"a", ".", "j", "p", "g">>, path |-> <<1>>, password |-> None,
      qr_position |-> None, qrcode_overlap |-> FALSE, has_quiet_zone |-> TRUE,
      qrcode_fg_color |-> "#000000ff", qrcode_bg_color |-> "ffffffff" ]

DefaultFs ==
    [ imgExists |-> TRUE, imgDecodable |-> TRUE, imgW |-> DimBase * 3,
      imgH |-> DimBase * 3, imgLen |-> 1, oldLen |-> 0,
      kind |-> [n \in Nodes |-> IF n = 1 THEN "dir" ELSE "file"] ]

InitProgram ==
    /\ pc = "start"
    /\ output_fn = None
    /\ opened = FALSE
    /\ out = <<>>
    /\ pos = 0
    /\ log = <<>>
    /\ orig_image = None
    /\ qrcode_img = None
    /\ xy = None
    /\ options = None
    /\ path_to_pack = <<>>
    /\ widx = 1
    /\ entries = <<>>
    /\ entryFailedAt = 0
    /\ held = <<>>

\* the image argument, the options that choose the branch, the output path
InitRun ==
    /\ \E img \in ImgNames, pw \in {None, Some(1)}, ov \in BOOLEAN,
          ps \in {<<>>, <<1>>} :
          args = [DefaultArgs EXCEPT !.img = img, !.password = pw,
                                     !.qrcode_overlap = ov, !.path = ps]
    /\ \E ex \in BOOLEAN, len \in 1..MaxImgLen, old \in 0..MaxOldLen :
          fs = [DefaultFs EXCEPT !.imgExists = ex, !.imgLen = len, !.oldLen = old]

\* the inputs of the QR overlay
InitOverlay ==
    /\ \E pw \in Passwords, p \in Positions, qz \in BOOLEAN,
          fg \in Colors, bg \in Colors :
          /\ (fg = "#000000ff" \/ bg = "ffffffff")
          /\ args = [DefaultArgs EXCEPT !.password = pw, !.qrcode_overlap = TRUE,
                                        !.qr_position = p, !.has_quiet_zone = qz,
                                        !.qrcode_fg_color = fg,
                                        !.qrcode_bg_color = bg]
    /\ \E w \in Dims, h \in Dims, dec \in BOOLEAN :
          fs = [DefaultFs EXCEPT !.imgW = w, !.imgH = h, !.imgDecodable = dec]

\* the input paths and the tree below them
InitWalk ==
    /\ \E ps \in PathSeqs : args = [DefaultArgs EXCEPT !.path = ps]
    /\ \E k \in [Nodes -> Kinds] : fs = [DefaultFs EXCEPT !.kind = k]

Init == InitProgram /\ (InitRun \/ InitOverlay \/ InitWalk)

----------------------------------------------------------------------------
(* The steps of main *)

Fail == pc' = "failed"

\* if !img.exists() { error!(...) }: logs and goes on
CheckImg ==
    /\ pc = "start"
    /\ log' = IF fs.imgExists THEN log
              ELSE Append(log, "error: input image not existing!")
    /\ pc' = "name"
    /\ UNCHANGED <<args, fs, output_fn, opened, out, pos, orig_image, qrcode_img,
                   xy, options, path_to_pack, widx, entries, entryFailedAt, held>>

\* let output_fn = ...: extension().unwrap() panics on a name without extension
ComputeOutputFn ==
    /\ pc = "name"
    /\ IF OutputExt(args.img, args.qrcode_overlap) = None
       THEN pc' = "panicked" /\ UNCHANGED output_fn
       ELSE /\ output_fn' = Some(OutputFn(args.img, args.qrcode_overlap))
            /\ pc' = "open"
    /\ UNCHANGED <<args, fs, opened, out, pos, log, orig_image, qrcode_img,
                   xy, options, path_to_pack, widx, entries, entryFailedAt, held>>

\* let mut output = OpenOptions::new()....open(&output_fn)?
OpenOutput ==
    /\ pc = "open"
    /\ \E ok \in BOOLEAN :
          IF ok
          THEN /\ opened' = TRUE
               /\ out' = Opened(Repeat(<<"old", 0>>, fs.oldLen))
               /\ pos' = 0
               /\ pc' = IF args.password # None /\ args.qrcode_overlap
                        THEN "decode" ELSE "copy"
          ELSE Fail /\ UNCHANGED <<opened, out, pos>>
    /\ UNCHANGED <<args, fs, output_fn, log, orig_image, qrcode_img,
                   xy, options, path_to_pack, widx, entries, entryFailedAt, held>>

\* open(img)?, with_guessed_format()?, decode()?, to_rgba8()
DecodeImage ==
    /\ pc = "decode"
    /\ IF fs.imgExists /\ fs.imgDecodable
       THEN /\ orig_image' = Some([w |-> fs.imgW, h |-> fs.imgH, rect |-> None])
            /\ pc' = "qr"
       ELSE Fail /\ UNCHANGED orig_image
    /\ UNCHANGED <<args, fs, output_fn, opened, out, pos, log, qrcode_img,
                   xy, options, path_to_pack, widx, entries, entryFailedAt, held>>

\* pixel_len, the two colors, the QR code and its rendering
GenerateQr ==
    /\ pc = "qr"
    /\ LET pixel_len == PixelLen(orig_image[1].w, orig_image[1].h)
           v == args.password[1]
       IN  IF /\ ColorParses(args.qrcode_fg_color)
              /\ ColorParses(args.qrcode_bg_color)
              /\ v # 0
           THEN /\ qrcode_img' = Some(RenderedLen(v, pixel_len, args.has_quiet_zone))
                /\ pc' = "place"
           ELSE Fail /\ UNCHANGED qrcode_img
    /\ UNCHANGED <<args, fs, output_fn, opened, out, pos, log, orig_image,
                   xy, options, path_to_pack, widx, entries, entryFailedAt, held>>

\* let (x, y) = match qr_position.as_deref() {...}: a subtraction that
\* overflows panics in a build with overflow checks and wraps in one without
Place ==
    /\ pc = "place"
    /\ LET w == orig_image[1].w
           h == orig_image[1].h
           q == qrcode_img[1]
       IN  \E overflow_checks \in BOOLEAN :
              IF PlaceOverflows(args.qr_position, w, h, q) /\ overflow_checks
              THEN pc' = "panicked" /\ UNCHANGED <<xy, log>>
              ELSE /\ xy' = Some(PlaceOffset(args.qr_position, w, h, q))
                   /\ log' = IF PlaceWarns(args.qr_position)
                             THEN Append(log, "warn: unknown position")
                             ELSE log
                   /\ pc' = "overlay"
    /\ UNCHANGED <<args, fs, output_fn, opened, out, pos, orig_image, qrcode_img,
                   options, path_to_pack, widx, entries, entryFailedAt, held>>

\* overlay(&mut orig_image, &qrcode_img, x, y); encoder.write_image(...)?
OverlayAndWrite ==
    /\ pc = "overlay"
    /\ LET im == orig_image[1]
           merged == [im EXCEPT !.rect =
                         OverlayRect(im.w, im.h, qrcode_img[1], xy[1][1], xy[1][2])]
       IN  /\ orig_image' = Some(merged)
           /\ \E n \in 0..Len(PngBytes) :
                 /\ out' = WriteAt(out, pos, Prefix(PngBytes, n))
                 /\ pos' = pos + n
                 /\ pc' = IF n = Len(PngBytes) THEN "zip" ELSE "failed"
    /\ UNCHANGED <<args, fs, output_fn, opened, log, qrcode_img,
                   xy, options, path_to_pack, widx, entries, entryFailedAt, held>>

\* the else branch: warn when only the flag is given; fs::read(img)?;
\* output.write_all(&img_data)?, which on failure leaves the bytes written
\* before the error in the file
CopyImage ==
    /\ pc = "copy"
    /\ log' = IF args.qrcode_overlap
              THEN Append(log, "warn: QR Code overlap does nothing without a password")
              ELSE log
    /\ IF fs.imgExists
       THEN \E n \in 0..fs.imgLen :
               /\ out' = WriteAt(out, pos, Prefix(Repeat(<<"img", 0>>, fs.imgLen), n))
               /\ pos' = pos + n
               /\ pc' = IF n = fs.imgLen THEN "zip" ELSE "failed"
       ELSE Fail /\ UNCHANGED <<out, pos>>
    /\ UNCHANGED <<args, fs, output_fn, opened, orig_image, qrcode_img,
                   xy, options, path_to_pack, widx, entries, entryFailedAt, held>>

\* FileOptions::default()...: the entries carry the default timestamp of the
\* archive library (the DOS epoch, or the time of the run when the library is
\* built with its clock feature); with_aes_encryption when a password is given
DefaultTimes == {<<"dos-epoch", 0>>, <<"time-of-run", 0>>}

NewZip ==
    /\ pc = "zip"
    /\ \E t \in DefaultTimes :
          options' = Some([last_modified_time |-> t,
                           encrypted |-> args.password # None])
    /\ path_to_pack' = <<>>
    /\ widx' = 1
    /\ pc' = IF Len(args.path) = 0 THEN "finish" ELSE "walk"
    /\ UNCHANGED <<args, fs, output_fn, opened, out, pos, log, orig_image,
                   qrcode_img, xy, entries, entryFailedAt, held>>

\* `writer` going out of scope on an early return (`?`) after main.rs:167: the
\* archive writer's destructor finalizes the archive, writing what it still
\* holds and the central directory to the output; an error of that write is
\* reported on stderr and ignored.  n is how many of those bytes reach the
\* file: all of them (n = Len(h) + 1) when the destructor succeeds
DropWriter(o, p, h, n) == WriteAt(o, p, Prefix(h \o <<<<"cd", 0>>>>, n))

\* one iteration of `for p in path { visit_dirs_or_file(p, &mut path_to_pack)?; }`
WalkPath ==
    /\ pc = "walk"
    /\ LET r == visit_dirs_or_file(args.path[widx], path_to_pack)
       IN  /\ path_to_pack' = r.list
           /\ IF r.ok
              THEN /\ widx' = widx + 1
                   /\ pc' = IF widx < Len(args.path) THEN "walk"
                            ELSE IF Len(r.list) = 0 THEN "finish" ELSE "pack"
                   /\ UNCHANGED out
              ELSE /\ Fail
                   /\ \E n \in 0..(Len(held) + 1) :
                         out' = DropWriter(out, pos, held, n)
                   /\ UNCHANGED widx
    /\ UNCHANGED <<args, fs, output_fn, opened, pos, log, orig_image,
                   qrcode_img, xy, options, entries, entryFailedAt, held>>

\* where the body of `for path in path_to_pack` leaves main: each of
\* start_file_from_path, fs::read and write_all is followed by `?`
PackOutcome(started, written) ==
    IF ~(started /\ written) THEN "failed"
    ELSE IF Len(entries) + 1 < Len(path_to_pack) THEN "pack" ELSE "finish"

\* one iteration of the loop over path_to_pack: start_file_from_path completes
\* the entry before (writing the data the writer still holds) and writes the
\* header of this one, fs::read reads the file, write_all hands its data to the
\* writer, whose compressor writes it now or holds it (hold) until the entry is
\* completed.  A failed call returns from main and drops the writer; n bytes
\* of what the writer holds and of the central directory then reach the file.
PackEntry ==
    /\ pc = "pack"
    /\ LET k == Len(entries) + 1
           path == path_to_pack[k]
       IN  \E started \in BOOLEAN, read \in BOOLEAN, wrote \in BOOLEAN,
              hold \in BOOLEAN, n \in 0..2 :
              /\ (~started => read /\ wrote)
              /\ (~read => wrote)
              /\ (hold => started /\ read /\ wrote)
              /\ (n > 0 => ~(started /\ read /\ wrote))
              /\ (n = 2 => ~started /\ held # <<>>)
              /\ LET written == read /\ wrote
                     bytes == IF ~started THEN <<>>
                              ELSE IF ~written \/ hold THEN held \o <<<<"hdr", k>>>>
                              ELSE held \o <<<<"hdr", k>>, <<"dat", k>>>>
                     kept == IF ~started THEN held
                             ELSE IF hold THEN <<<<"dat", k>>>> ELSE <<>>
                     next == PackOutcome(started, written)
                     o == WriteAt(out, pos, bytes)
                     p == pos + Len(bytes)
                 IN  /\ entries' =
                           IF started
                           THEN Append(entries,
                                    [path |-> path,
                                     time |-> options[1].last_modified_time,
                                     encrypted |-> options[1].encrypted,
                                     complete |-> written])
                           ELSE entries
                     /\ out' = IF next = "failed"
                               THEN DropWriter(o, p, kept, n) ELSE o
                     /\ pos' = p
                     /\ held' = kept
                     /\ entryFailedAt' = IF started /\ written THEN entryFailedAt
                                         ELSE IF entryFailedAt = 0 THEN k
                                         ELSE entryFailedAt
                     /\ pc' = next
    /\ UNCHANGED <<args, fs, output_fn, opened, log, orig_image, qrcode_img,
                   xy, options, path_to_pack, widx>>

\* writer.finish()?: the data still held and the central directory; then the
\* closing info line.  When finish fails the writer is dropped; n bytes of
\* what finish and the destructor try to write reach the file.
Finish ==
    /\ pc = "finish"
    /\ \E ok \in BOOLEAN, n \in 0..(Len(held) + 1) :
          /\ n > 0 => ~ok
          /\ IF ok
             THEN /\ out' = WriteAt(out, pos, held \o <<<<"cd", 0>>>>)
                  /\ pos' = pos + Len(held) + 1
                  /\ held' = <<>>
                  /\ log' = Append(log, "info: all tasks finished without any error.")
                  /\ pc' = "done"
             ELSE /\ Fail
                  /\ out' = DropWriter(out, pos, held, n)
                  /\ UNCHANGED <<pos, held, log>>
    /\ UNCHANGED <<args, fs, output_fn, opened, orig_image, qrcode_img,
                   xy, options, path_to_pack, widx, entries, entryFailedAt>>

Next ==
    \/ CheckImg
    \/ ComputeOutputFn
    \/ OpenOutput
    \/ DecodeImage
    \/ GenerateQr
    \/ Place
    \/ OverlayAndWrite
    \/ CopyImage
    \/ NewZip
    \/ WalkPath
    \/ PackEntry
    \/ Finish

Spec == Init /\ [][Next]_vars

----------------------------------------------------------------------------
(* Claims *)

Composited == args.password # None /\ args.qrcode_overlap

\* the image region of the output: the compositor's raster or the raw copy
ImageBytes ==
    IF Composited THEN PngBytes ELSE Repeat(<<"img", 0>>, fs.imgLen)

RECURSIVE EntryBytes(_)
EntryBytes(k) ==
    IF k = 0 THEN <<>>
    ELSE EntryBytes(k - 1) \o <<<<"hdr", k>>, <<"dat", k>>>>

Finalized == \E i \in 1..Len(out) : out[i] = <<"cd", 0>>

\* C1: after a successful run, whatever was at the output path before, the
\* output file is exactly the image bytes followed by the archive, whose
\* central directory ends the file.
CE_C1_ImageThenArchive ==
    pc = "done" =>
        out = ImageBytes \o EntryBytes(Len(path_to_pack)) \o <<<<"cd", 0>>>>

\* C2: entries are written one per element of the file list, in list order;
\* the archive is finalized (its central directory written) only after every
\* entry of the walked list was written; once an entry fails the run has
\* failed, no later entry is written and the central directory is never
\* written.
CE_C2_EntriesInOrderThenFinalize ==
    /\ Len(entries) <= Len(path_to_pack)
    /\ \A k \in 1..Len(entries) : entries[k].path = path_to_pack[k]
    /\ (Finalized /\ widx > Len(args.path)) =>
          /\ Len(entries) = Len(path_to_pack)
          /\ \A k \in 1..Len(entries) : entries[k].complete
          /\ entryFailedAt = 0
    /\ entryFailedAt # 0 =>
          /\ pc = "failed"
          /\ Len(entries) <= entryFailedAt
          /\ \A k \in 1..Len(entries) : entries[k].complete <=> k < entryFailedAt
          /\ ~Finalized

\* C3: the output name is the image's file stem (the file name without its
\* extension) followed by "_merged." and png (overlay flag) or the original
\* extension.
CE_C3_NameIsStemMerged ==
    output_fn # None =>
        output_fn[1] = FileStem(args.img) \o MergedSuffix
                       \o (IF args.qrcode_overlap THEN Png ELSE Extension(args.img)[1])

\* C4: after a successful run the extension of the output agrees with its
\* image region: without a password the name keeps the original extension and
\* the region is the raw copy; a name newly ending in png holds the raster.
CE_C4_ExtensionAgreesWithContent ==
    pc = "done" =>
        /\ args.password = None =>
              /\ Extension(output_fn[1]) = Extension(args.img)
              /\ out[1] = <<"img", 0>>
        /\ (Extension(output_fn[1]) = Some(Png) /\ Extension(args.img) # Some(Png))
              => out[1] = <<"png", 1>>

KnownCorners == {"top-right", "bottom-left", "bottom-right", "center"}

\* the offset C5 names, in unbounded arithmetic
ExpectedOffset(p, w, h, q) ==
    CASE p = "top-right"    -> <<w - q, 0>>
      [] p = "bottom-left"  -> <<0, h - q>>
      [] p = "bottom-right" -> <<w - q, h - q>>
      [] p = "center"       -> <<(w - q) \div 2, (h - q) \div 2>>

\* C5: for a QR bitmap no larger than the image, the offset is the one the
\* position names, the bitmap lies inside the image, and the overlaid region
\* is the whole bitmap at that offset.
Thm_C5_PlacementInsideImage ==
    (/\ xy # None
     /\ args.qr_position # None
     /\ args.qr_position[1] \in KnownCorners
     /\ qrcode_img[1] <= orig_image[1].w
     /\ qrcode_img[1] <= orig_image[1].h) =>
        LET w == orig_image[1].w
            h == orig_image[1].h
            q == qrcode_img[1]
            e == ExpectedOffset(args.qr_position[1], w, h, q)
        IN  /\ xy[1] = <<<<0, e[1]>>, <<0, e[2]>>>>
            /\ e[1] + q <= w
            /\ e[2] + q <= h
            /\ pc \in {"zip", "walk", "pack", "finish", "done"} =>
                  orig_image[1].rect =
                      Some([x0 |-> e[1], y0 |-> e[2], x1 |-> e[1] + q, y1 |-> e[2] + q])

Wit_C5_CenterOddMargin ==
    /\ pc = "zip"
    /\ args.qr_position = Some("center")
    /\ qrcode_img[1] <= orig_image[1].w
    /\ qrcode_img[1] <= orig_image[1].h
    /\ (orig_image[1].w - qrcode_img[1]) % 2 = 1
    /\ orig_image[1].h > qrcode_img[1]

Warned == \E i \in 1..Len(log) : log[i] = "warn: unknown position"

\* C6: an unrecognized position keyword places the QR as top-left does, at
\* (0, 0), and warns; top-left and an absent position do not warn.
Thm_C6_FallbackTopLeftWarns ==
    (xy # None /\ (args.qr_position = None \/ args.qr_position[1] \notin KnownCorners)) =>
        /\ xy[1] = <<<<0, 0>>, <<0, 0>>>>
        /\ Warned <=> (args.qr_position # None /\ args.qr_position[1] # "top-left")

Wit_C6_UnknownKeyword ==
    /\ pc = "zip"
    /\ args.qr_position = Some("middle")
    /\ Warned
    /\ orig_image[1].rect # None

\* C7: a QR bitmap larger than the image in either dimension is rejected
\* before compositing: no offset is computed from it, nothing is composited
\* or written, and the run fails.
CE_C7_OversizedQrRejected ==
    (/\ qrcode_img # None
     /\ (qrcode_img[1] > orig_image[1].w \/ qrcode_img[1] > orig_image[1].h)) =>
        /\ xy = None
        /\ pc \in {"place", "failed"}

\* Depth of node n below the root 1, and its ancestor at depth d
RECURSIVE Depth(_)
Depth(n) == IF n = 1 THEN 0 ELSE 1 + Depth(n \div 2)

RECURSIVE AncestorAt(_, _)
AncestorAt(n, d) == IF Depth(n) <= d THEN n ELSE AncestorAt(n \div 2, d)

\* the nodes on the way from p down to n, n excluded; {} shows n is not below p
Above(p, n) == {AncestorAt(n, d) : d \in Depth(p)..(Depth(n) - 1)}

\* the regular files the walk of p is to contribute: p itself, or the files
\* below p with nothing but directories on the way
Reachable(p) ==
    {n \in Nodes :
        /\ fs.kind[n] = "file"
        /\ Depth(n) >= Depth(p)
        /\ AncestorAt(n, Depth(p)) = p
        /\ \A a \in Above(p, n) : fs.kind[a] = "dir"}

\* f is listed before g in a traversal: at the first depth where their
\* ancestors differ, f's comes first in the listing
Before(f, g) ==
    \E d \in 0..Min(Depth(f), Depth(g)) :
        /\ AncestorAt(f, d) < AncestorAt(g, d)
        /\ \A c \in 0..(d - 1) : AncestorAt(f, c) = AncestorAt(g, c)

ExpectedFiles(p) ==
    LET R == Reachable(p)
    IN  [i \in 1..Cardinality(R) |->
            CHOOSE f \in R : Cardinality({g \in R : Before(g, f)}) = i - 1]

RECURSIVE ExpectedList(_)
ExpectedList(k) ==
    IF k = 0 THEN <<>> ELSE ExpectedList(k - 1) \o ExpectedFiles(args.path[k])

\* C8: while the walk succeeds, the file list is the files reachable from the
\* input paths walked so far, path after path, each in traversal order, with
\* nothing dropped, reordered or deduplicated.
CE_C8_WalkListsReachableFiles ==
    pc \in {"walk", "pack", "finish", "done"} =>
        path_to_pack = ExpectedList(IF pc = "walk" THEN widx - 1 ELSE Len(args.path))

\* C9: once a failure of the taxonomy is detected (here: the input image does
\* not exist) no later step runs: the output file is not created and the run
\* is not left in any state but the failed one.
CE_C9_FailureUnwindsAtOnce ==
    (\E i \in 1..Len(log) : log[i] = "error: input image not existing!") =>
        /\ ~opened
        /\ pc # "done"

\* C10: every entry carries the modification time of the file it was read from.
CE_C10_EntryCarriesFileMtime ==
    \A k \in 1..Len(entries) : entries[k].time = <<"mtime", entries[k].path>>

====
